---- MODULE Spec2Model ----
(***************************************************************************)
(* Model of the layered (Sugiyama) graph layout of go-graph-layout:        *)
(* layered graph construction, layer ordering, Brandes-Kopf horizontal     *)
(* coordinates.                                                            *)
(***************************************************************************)
EXTENDS Integers, Sequences, FiniteSets, TLC

VARIABLES
    pc,     \* position of the program
    g,      \* input Graph: [Nodes, Edges]
    levels, \* what assignLevels returned
    lg,     \* LayeredGraph: [NodePosition, Segments, Dummy, Edges]
    layers, \* the layers slice an ordering routine works on
    N,      \* the last crossing count computed
    cfg,    \* the configuration of the strategies
    bestLayers, bestN,   \* locals of WarfieldOrderingOptimizer.Optimize
    tEpoch, iLayer,      \* its loop counters t and i
    log,    \* the records written by log.Printf, one per epoch
    orderedNeighbors, typeOneSegments,  \* locals of NodesHorizontalCoordinates
    res,    \* its LayoutResults, by variant: "TL", "TR", "BL", "BR"
    nodeX,  \* the map it returns
    out,    \* the Graph as the output sink, nodeY and allNodesXY
    found   \* the last call of UpperNeighbors or LowerNeighbors and its result

vars == <<pc, g, levels, lg, layers, N, cfg, bestLayers, bestN, tEpoch, iLayer, log,
          orderedNeighbors, typeOneSegments, res, nodeX, out, found>>

warfieldVars == <<cfg, bestLayers, bestN, tEpoch, iLayer, log>>

coordVars == <<orderedNeighbors, typeOneSegments, res, nodeX, out>>

(***************************************************************************)
(* Bounds of the model.                                                    *)
(***************************************************************************)
MaxNodes == 4
MaxEdges == 4
\* crossing counter: sizes of the two layers, number of segments
MaxTop == 3
MaxBottom == 3
MaxCrossSegments == 4
\* ordering: size of the graphs, epochs of the driver and of the random optimizer
MaxOrderNodes == 4
MaxOrderEdges == 4
MaxEpochs == 2
MaxRandomEpochs == 2
\* horizontal coordinates: size of the graphs, Delta, and the number of nodes
\* up to which every order of the range over NodePosition is taken
MaxBKNodes == 4
MaxBKEdges == 3
MaxDelta == 2
MaxRangeNodes == 4
\* pipeline: size of the graphs, epochs, row height, width and height of a node
MaxLayoutNodes == 3
MaxLayoutEdges == 2
MaxLayoutEpochs == 1
MaxRowHeight == 2
MaxSize == 2

(***************************************************************************)
(* Generic helpers.                                                        *)
(***************************************************************************)
Range(s) == {s[k] : k \in DOMAIN s}

RECURSIVE Perms(_)
\* every order in which a Go map range can yield the members of S
Perms(S) ==
    IF S = {} THEN {<<>>}
    ELSE UNION {{<<e>> \o p : p \in Perms(S \ {e})} : e \in S}

MaxOf(S) == CHOOSE m \in S : \A o \in S : o <= m

MinOf(S) == CHOOSE m \in S : \A o \in S : m <= o

\* the member of a set of one element (used to compute a value once and name it)
TheOne(S) == CHOOSE r \in S : TRUE

\* the Go index of n in the slice
IndexIn0(layer, n) == (CHOOSE k \in DOMAIN layer : layer[k] = n) - 1

\* reading a Go map: the zero value when the key is absent
LayerPosition(layer, order) == [Layer |-> layer, Order |-> order]

PosOf(nodeYX, n) ==
    IF n \in DOMAIN nodeYX THEN nodeYX[n] ELSE LayerPosition(0, 0)

\* writing a Go map: m[k] = v
Put(m, k, v) == [n \in (DOMAIN m) \cup {k} |-> IF n = k THEN v ELSE m[n]]

EmptyMap == [n \in {} |-> 0]

(***************************************************************************)
(* Input graphs: acyclic, edges between nodes of the graph.                *)
(***************************************************************************)
Ids == 1..MaxNodes

RECURSIVE Reach(_, _, _)
\* nodes reachable from the set F by at least one edge of E (k steps left)
Reach(E, F, k) ==
    LET step == {e[2] : e \in {d \in E : d[1] \in F}}
    IN IF k = 0 \/ step = {} THEN step ELSE step \cup Reach(E, step, k - 1)

Acyclic(E) == \A n \in Ids : n \notin Reach(E, {n}, MaxNodes)

EdgeSets ==
    {E \in SUBSET {e \in Ids \X Ids : e[1] # e[2]} :
        Cardinality(E) <= MaxEdges /\ Acyclic(E)}

Graphs ==
    {[Nodes |-> ns, Edges |-> E] : ns \in SUBSET Ids, E \in EdgeSets}

WellFormed(gr) == \A e \in gr.Edges : e[1] \in gr.Nodes /\ e[2] \in gr.Nodes

(***************************************************************************)
(* graph.go                                                                *)
(***************************************************************************)
\* Graph.Roots: the nodes without a parent, in the order the map yields them
Roots(gr) ==
    Perms({n \in gr.Nodes : ~ \E e \in gr.Edges : e[2] = n})

\* maxNodeID
maxNodeID(gr) ==
    IF gr.Edges = {} THEN 0
    ELSE MaxOf({e[1] : e \in gr.Edges} \cup {e[2] : e \in gr.Edges})

\* the neighbors map of assignLevels, built by ranging over g.Edges in edgeOrder
NeighborsOf(edgeOrder) ==
    [n \in {e[1] : e \in Range(edgeOrder)} |->
        LET mine == SelectSeq(edgeOrder, LAMBDA e : e[1] = n)
        IN [k \in 1..Len(mine) |-> mine[k][2]]]

ChildrenOf(neighbors, p) ==
    IF p \in DOMAIN neighbors THEN neighbors[p] ELSE <<>>

RECURSIVE relaxChildrenLast(_, _, _, _)
\* relaxChildren without the comparison: the layer seen last wins
relaxChildrenLast(children, p, nodeYX, que) ==
    IF children = <<>> THEN [nodeYX |-> nodeYX, que |-> que]
    ELSE TheOne({relaxChildrenLast(tl, p, ny, q) :
                    tl \in {Tail(children)},
                    ny \in {Put(nodeYX, Head(children),
                                LayerPosition(PosOf(nodeYX, p).Layer + 1, 0))},
                    q \in {Append(que, Head(children))}})

RECURSIVE relaxChildren(_, _, _, _)
\* the loop over neighbors[p]: returns the new nodeYX and the queue
relaxChildren(children, p, nodeYX, que) ==
    IF children = <<>> THEN [nodeYX |-> nodeYX, que |-> que]
    ELSE LET child == Head(children)
             l == PosOf(nodeYX, p).Layer + 1
             next == IF l > PosOf(nodeYX, child).Layer
                     THEN Put(nodeYX, child, LayerPosition(l, 0))
                     ELSE nodeYX
         IN TheOne({relaxChildren(tl, p, ny, q) :
                       tl \in {Tail(children)}, ny \in {next}, q \in {Append(que, child)}})

RECURSIVE bfs(_, _, _)
\* the queue loop of assignLevels for one root
bfs(que, nodeYX, neighbors) ==
    IF que = <<>> THEN nodeYX
    ELSE LET p == Head(que)
         IN TheOne({bfs(r.que, r.nodeYX, neighbors) :
                       r \in {relaxChildren(ChildrenOf(neighbors, p), p, nodeYX,
                                            Tail(que))}})

RECURSIVE levelsFromRoots(_, _, _)
levelsFromRoots(roots, nodeYX, neighbors) ==
    IF roots = <<>> THEN nodeYX
    ELSE TheOne({levelsFromRoots(Tail(roots), ny, neighbors) :
                    ny \in {bfs(<<Head(roots)>>,
                                Put(nodeYX, Head(roots), LayerPosition(0, 0)),
                                neighbors)}})

\* assignLevels, for one order of each of the two map ranges
assignLevels(gr, edgeOrder, roots) ==
    TheOne({levelsFromRoots(roots, EmptyMap, neighbors) :
               neighbors \in {NeighborsOf(edgeOrder)}})

RECURSIVE dummyChainInclusive(_, _, _, _, _)
\* dummyChain with "layer <= toLayer"
dummyChainInclusive(layer, toLayer, nodeYX, newEdge, nextFakeNodeID) ==
    IF layer <= toLayer
    THEN TheOne({dummyChainInclusive(layer + 1, toLayer, ny, ne, nextFakeNodeID + 1) :
                    ny \in {Put(nodeYX, nextFakeNodeID, LayerPosition(layer, 0))},
                    ne \in {Append(newEdge, nextFakeNodeID)}})
    ELSE [nodeYX |-> nodeYX, newEdge |-> newEdge, next |-> nextFakeNodeID]

RECURSIVE dummyChain(_, _, _, _, _)
\* the loop "for layer := fromLayer + 1; layer < toLayer; layer++" of makeEdges
dummyChain(layer, toLayer, nodeYX, newEdge, nextFakeNodeID) ==
    IF layer < toLayer
    THEN TheOne({dummyChain(layer + 1, toLayer, ny, ne, nextFakeNodeID + 1) :
                    ny \in {Put(nodeYX, nextFakeNodeID, LayerPosition(layer, 0))},
                    ne \in {Append(newEdge, nextFakeNodeID)}})
    ELSE [nodeYX |-> nodeYX, newEdge |-> newEdge, next |-> nextFakeNodeID]

RECURSIVE splitEdges(_, _, _, _)
\* the loop over g.Edges of makeEdges, in the order the map yields them
splitEdges(edgeOrder, nodeYX, edges, nextFakeNodeID) ==
    IF edgeOrder = <<>> THEN [nodeYX |-> nodeYX, edges |-> edges]
    ELSE LET e == Head(edgeOrder)
             fromLayer == PosOf(nodeYX, e[1]).Layer
             toLayer == PosOf(nodeYX, e[2]).Layer
         IN TheOne({splitEdges(Tail(edgeOrder), c.nodeYX, es, c.next) :
                <<c, es>> \in
                    {<<d, Put(edges, e, Append(d.newEdge, e[2]))>> :
                        d \in {IF (toLayer - fromLayer) > 1
                               THEN dummyChain(fromLayer + 1, toLayer, nodeYX,
                                               <<e[1]>>, nextFakeNodeID)
                               ELSE [nodeYX |-> nodeYX, newEdge |-> <<e[1]>>,
                                     next |-> nextFakeNodeID]}}})

\* makeEdges: the chains, and nodeYX with the fake nodes added to it
makeEdges(gr, nodeYX, edgeOrder) ==
    splitEdges(edgeOrder, nodeYX, EmptyMap, maxNodeID(gr) + 1)

\* makeSegments (a chain always has two nodes or more here)
makeSegments(edges) ==
    UNION {IF Len(edges[e]) = 2 THEN {e}
           ELSE {<<edges[e][k - 1], edges[e][k]>> : k \in 2..Len(edges[e])}
           : e \in DOMAIN edges}

\* makeDummy that does not skip the last node of a chain
makeDummyWithLast(edges) ==
    UNION {IF Len(edges[e]) > 2
           THEN {edges[e][k] : k \in 2..Len(edges[e])}
           ELSE {}
           : e \in DOMAIN edges}

\* makeDummy
makeDummy(edges) ==
    UNION {IF Len(edges[e]) > 2
           THEN {edges[e][k] : k \in 2..(Len(edges[e]) - 1)}
           ELSE {}
           : e \in DOMAIN edges}

\* NewLayeredGraph, given the value assignLevels returned
NewLayeredGraph(gr, positions, edgeOrder) ==
    TheOne({[NodePosition |-> m.nodeYX,
             Segments |-> makeSegments(m.edges),
             Dummy |-> makeDummy(m.edges),
             Edges |-> m.edges] : m \in {makeEdges(gr, positions, edgeOrder)}})

(***************************************************************************)
(* layered graph                                                           *)
(***************************************************************************)
\* LayeredGraph.Validate: TRUE when it returns nil
Validate(l) ==
    \A e \in l.Segments :
        ~ (PosOf(l.NodePosition, e[1]).Layer >= PosOf(l.NodePosition, e[2]).Layer)

EmptyLayeredGraph ==
    [NodePosition |-> EmptyMap, Segments |-> {}, Dummy |-> {}, Edges |-> EmptyMap]

(***************************************************************************)
(* crossing counter                                                        *)
(***************************************************************************)
RECURSIVE lowBit(_)
\* idx & (-idx), for idx > 0
lowBit(idx) == IF idx % 2 = 1 THEN 1 ELSE 2 * lowBit(idx \div 2)

\* NewFenwickTree: a slice of nbElements + 1 zeroes, indexed from 0
NewFenwickTree(nbElements) == [k \in 0..nbElements |-> 0]

FenwickLen(bit) == Cardinality(DOMAIN bit)

RECURSIVE FenwickUpdateUp(_, _, _)
\* FenwickTree.Update that walks idx down (idx -= idx & -idx)
FenwickUpdateUp(bit, idx, value) ==
    IF idx > 0 /\ idx < FenwickLen(bit)
    THEN FenwickUpdateUp([bit EXCEPT ![idx] = @ + value], idx - lowBit(idx), value)
    ELSE bit

RECURSIVE FenwickUpdate(_, _, _)
\* FenwickTree.Update
FenwickUpdate(bit, idx, value) ==
    IF idx < FenwickLen(bit)
    THEN FenwickUpdate([bit EXCEPT ![idx] = @ + value], idx + lowBit(idx), value)
    ELSE bit

RECURSIVE FenwickQuery(_, _)
\* FenwickTree.Query
FenwickQuery(bit, idx) ==
    IF idx > 0 THEN bit[idx] + FenwickQuery(bit, idx - lowBit(idx)) ELSE 0

RECURSIVE crossTop(_, _, _, _, _, _)
\* the inner loop "for j := len(ltop) - 1; j >= 0; j--"; j is the Go index
crossTop(segments, ltop, node, j, bit, sum) ==
    IF j < 0 THEN [bit |-> bit, sum |-> sum]
    ELSE IF <<ltop[j + 1], node>> \in segments
         THEN LET b == FenwickUpdate(bit, j + 1, 1)
              IN crossTop(segments, ltop, node, j - 1, b, sum + FenwickQuery(b, j))
         ELSE crossTop(segments, ltop, node, j - 1, bit, sum)

RECURSIVE crossBottom(_, _, _, _, _, _)
\* the outer loop "for i := len(lbottom) - 1; i >= 0; i--"; i is the Go index
crossBottom(segments, ltop, lbottom, i, bit, sum) ==
    IF i < 0 THEN sum
    ELSE LET r == crossTop(segments, ltop, lbottom[i + 1], Len(ltop) - 1, bit, sum)
         IN crossBottom(segments, ltop, lbottom, i - 1, r.bit, r.sum)

\* numCrossingsBetweenLayers
numCrossingsBetweenLayers(segments, ltop, lbottom) ==
    crossBottom(segments, ltop, lbottom, Len(lbottom) - 1,
                NewFenwickTree(Len(ltop)), 0)

RECURSIVE numCrossingsFrom(_, _, _)
numCrossingsFrom(segments, ls, k) ==
    IF k > Len(ls) THEN 0
    ELSE numCrossingsBetweenLayers(segments, ls[k - 1], ls[k])
         + numCrossingsFrom(segments, ls, k + 1)

\* numCrossings: the sum over the pairs of adjacent layers
numCrossings(segments, ls) == numCrossingsFrom(segments, ls, 2)

(***************************************************************************)
(* LayeredGraph.Layers and the ordering strategies.  A layer is a sequence *)
(* (index k of the model is index k - 1 of the Go slice); the arguments    *)
(* x, y, idx of the routines are the Go indices.                           *)
(***************************************************************************)
\* sort.Slice on the members of S: the sort is not stable, so it can leave any
\* arrangement in which no element is less than the one before it
sortSlice(S, Less(_, _)) ==
    {p \in Perms(S) : \A k \in 2..Len(p) : ~ Less(p[k], p[k - 1])}

RECURSIVE SeqProduct(_)
\* the sequences that take their k-th element from the k-th set
SeqProduct(sets) ==
    IF sets = <<>> THEN {<<>>}
    ELSE {<<h>> \o tl : h \in Head(sets), tl \in SeqProduct(Tail(sets))}

\* LayerPosition.IsLeftOf (both positions are on one layer wherever it is used)
IsLeftOf(p, other) == p.Order < other.Order

maxLayer(l) ==
    IF DOMAIN l.NodePosition = {} THEN 0
    ELSE MaxOf({0} \cup {l.NodePosition[n].Layer : n \in DOMAIN l.NodePosition})

NodesAt(l, y) == {n \in DOMAIN l.NodePosition : l.NodePosition[n].Layer = y}

\* LayeredGraph.Layers: every value it can return (the nodes of a layer come
\* in map order and are then sorted by Order)
Layers(l) ==
    SeqProduct([k \in 1..(maxLayer(l) + 1) |->
        sortSlice(NodesAt(l, k - 1),
                  LAMBDA a, b : IsLeftOf(l.NodePosition[a], l.NodePosition[b]))])

\* a copy that lacks the first layer
newLayersFromSecond(src) == IF src = <<>> THEN src ELSE Tail(src)

\* newLayersFrom / copyLayers: a copy with the same content
newLayersFrom(src) == src

\* BFSOrderingInitializer.Init: the roots slice, for one order of the range
bfsRoots(segOrder) ==
    LET hasParent == {e[2] : e \in Range(segOrder)}
        sel == SelectSeq(segOrder, LAMBDA e : e[2] \notin hasParent)
    IN [k \in 1..Len(sel) |-> sel[k][2]]

RECURSIVE bfsVisit(_, _, _, _)
\* BFSOrderingInitializer.Init: the queue loop
bfsVisit(que, ord, cnt, fromNodeToNodes) ==
    IF que = <<>> THEN ord
    ELSE LET p == Head(que)
         IN IF p \in DOMAIN ord
            THEN bfsVisit(Tail(que), ord, cnt, fromNodeToNodes)
            ELSE bfsVisit(Tail(que) \o ChildrenOf(fromNodeToNodes, p),
                          Put(ord, p, cnt), cnt + 1, fromNodeToNodes)

OrdOf(ord, n) == IF n \in DOMAIN ord THEN ord[n] ELSE 0

\* the ord maps BFSOrderingInitializer.Init can compute
bfsOrds(segments) ==
    LET rootsOutcomes == {bfsRoots(so) : so \in Perms(segments)}
        fromOutcomes == {NeighborsOf(so) : so \in Perms(segments)}
    IN {bfsVisit(r, EmptyMap, 0, f) : r \in rootsOutcomes, f \in fromOutcomes}

\* BFSOrderingInitializer.Init: every value it can leave in layers
BFSInit(segments, ls) ==
    UNION {SeqProduct([k \in 1..Len(ls) |->
                sortSlice(Range(ls[k]),
                          LAMBDA a, b : OrdOf(ord, a) < OrdOf(ord, b))])
           : ord \in bfsOrds(segments)}

\* RandomLayerOrderingInitializer.Init
RandomInit(segments, ls) ==
    SeqProduct([k \in 1..Len(ls) |-> Perms(Range(ls[k]))])

InitOutcomes(kind, segments, ls) ==
    IF kind = "BFS" THEN BFSInit(segments, ls) ELSE RandomInit(segments, ls)

\* the Go indices of the members of layer that satisfy Test
IndicesWhere(layer, Test(_)) ==
    LET idxs == [k \in 1..Len(layer) |-> k - 1]
    IN SelectSeq(idxs, LAMBDA k : Test(layer[k + 1]))

lowerNeighborsX(segments, ls, x, y) ==
    IF y = Len(ls) - 1 THEN <<>>
    ELSE IndicesWhere(ls[y + 2], LAMBDA n : <<ls[y + 1][x + 1], n>> \in segments)

upperNeighborsX(segments, ls, x, y) ==
    IF y = 0 THEN <<>>
    ELSE IndicesWhere(ls[y], LAMBDA n : <<n, ls[y + 1][x + 1]>> \in segments)

\* median: a float64 in the code, here the fraction <<numerator, denominator>>
median(P) ==
    LET m == Len(P) \div 2
    IN IF Len(P) = 0 THEN <<-1, 1>>
       ELSE IF Len(P) % 2 = 1 THEN <<P[m + 1], 1>>
       ELSE IF Len(P) = 2 THEN <<P[1] + P[2], 2>>
       ELSE LET left == P[m] - P[1]
                right == P[Len(P)] - P[m + 1]
            IN <<P[m] * right + P[m + 1] * left, left + right>>

\* a < b for two fractions with positive denominators
FracLess(a, b) == a[1] * b[2] < b[1] * a[2]

\* WMedianOrderingOptimizer.Optimize: every value it can leave in layers
WMedianOptimize(segments, ls, y, downUp) ==
    LET w == [n \in Range(ls[y + 1]) |->
                 LET x == IndexIn0(ls[y + 1], n)
                 IN median(IF downUp THEN lowerNeighborsX(segments, ls, x, y)
                           ELSE upperNeighborsX(segments, ls, x, y))]
    IN {[ls EXCEPT ![y + 1] = p] :
            p \in sortSlice(Range(ls[y + 1]), LAMBDA a, b : FracLess(w[a], w[b]))}

RECURSIVE switchPassAlways(_, _, _, _, _)
\* switchPass without the comparison: every adjacent pair is swapped
switchPassAlways(segments, ls, y, downUp, k) ==
    IF k >= Len(ls[y + 1]) - 1 THEN ls
    ELSE switchPassAlways(segments,
             [ls EXCEPT ![y + 1] = [@ EXCEPT ![k + 1] = ls[y + 1][k + 2],
                                             ![k + 2] = ls[y + 1][k + 1]]],
             y, downUp, k + 1)

RECURSIVE switchPass(_, _, _, _, _)
\* SwitchAdjacentOrderingOptimizer.Optimize: the loop over the adjacent pairs
switchPass(segments, ls, y, downUp, k) ==
    IF k >= Len(ls[y + 1]) - 1 THEN ls
    ELSE LET a == ls[y + 1][k + 1]
             b == ls[y + 1][k + 2]
             current == <<a, b>>
             swapped == <<b, a>>
             currCrossings ==
                 IF downUp
                 THEN numCrossingsBetweenLayers(segments, current, ls[y + 2])
                 ELSE numCrossingsBetweenLayers(segments, ls[y], current)
             swappedCrossings ==
                 IF downUp
                 THEN numCrossingsBetweenLayers(segments, swapped, ls[y + 2])
                 ELSE numCrossingsBetweenLayers(segments, ls[y], swapped)
             next == IF swappedCrossings < currCrossings
                     THEN [ls EXCEPT ![y + 1] = [@ EXCEPT ![k + 1] = b, ![k + 2] = a]]
                     ELSE ls
         IN switchPass(segments, next, y, downUp, k + 1)

\* SwitchAdjacentOrderingOptimizer.Optimize
SwitchAdjacentOptimize(segments, ls, y, downUp) ==
    IF Len(ls[y + 1]) < 2 THEN ls
    ELSE IF downUp /\ y = Len(ls) - 1 THEN ls
    ELSE IF ~ downUp /\ y = 0 THEN ls
    ELSE switchPass(segments, ls, y, downUp, 0)

RECURSIVE randomEpochs(_, _, _, _, _, _, _)
\* RandomLayerOrderingOptimizer.Optimize: the loop over its epochs, every
\* outcome as [layers, candidates]; each epoch shuffles the copy (candidates
\* are the permutations generated so far), counts the crossings on
\* layers[idx], and copies the shuffled copy in when that count is better
randomEpochs(segments, ls, idx, best, k, epochs, candidates) ==
    IF k >= epochs THEN {[layers |-> ls, candidates |-> candidates]}
    ELSE LET c == (IF idx > 0
                   THEN numCrossingsBetweenLayers(segments, ls[idx], ls[idx + 1])
                   ELSE 0)
                  + (IF (idx + 1) < Len(ls)
                     THEN numCrossingsBetweenLayers(segments, ls[idx + 1], ls[idx + 2])
                     ELSE 0)
         IN UNION {IF best < 0 \/ c < best
                   THEN randomEpochs(segments, [ls EXCEPT ![idx + 1] = layer],
                                     idx, c, k + 1, epochs, candidates \cup {layer})
                   ELSE randomEpochs(segments, ls, idx, best, k + 1, epochs,
                                     candidates \cup {layer})
                   : layer \in Perms(Range(ls[idx + 1]))}

\* RandomLayerOrderingOptimizer.Optimize: every value it can leave in layers
RandomOptimize(segments, ls, idx, epochs) ==
    {run.layers : run \in randomEpochs(segments, ls, idx, -1, 0, epochs, {})}

\* the optimizers that are not composite
SimpleOptimize(o, segments, ls, idx, downUp) ==
    IF o.kind = "WMedian" THEN WMedianOptimize(segments, ls, idx, downUp)
    ELSE IF o.kind = "SwitchAdjacent"
         THEN {SwitchAdjacentOptimize(segments, ls, idx, downUp)}
    ELSE RandomOptimize(segments, ls, idx, o.Epochs)

RECURSIVE CompositeOptimize(_, _, _, _, _)
\* CompositeLayerOrderingOptimizer.Optimize: the optimizers in order
CompositeOptimize(optimizers, segments, ls, idx, downUp) ==
    IF optimizers = <<>> THEN {ls}
    ELSE UNION {CompositeOptimize(Tail(optimizers), segments, l2, idx, downUp)
                : l2 \in SimpleOptimize(Head(optimizers), segments, ls, idx, downUp)}

\* LayerOrderingOptimizer.Optimize
Optimize(o, segments, ls, idx, downUp) ==
    IF o.kind = "Composite"
    THEN CompositeOptimize(o.Optimizers, segments, ls, idx, downUp)
    ELSE SimpleOptimize(o, segments, ls, idx, downUp)

\* storeToGraph that numbers the orders from 1
storeToGraphFromOne(nodePosition, best) ==
    LET placed == UNION {Range(best[y]) : y \in DOMAIN best}
    IN [n \in (DOMAIN nodePosition) \cup placed |->
           IF n \in placed
           THEN LET y == CHOOSE k \in DOMAIN best : n \in Range(best[k])
                IN LayerPosition(y - 1, IndexIn0(best[y], n) + 1)
           ELSE nodePosition[n]]

\* the write back of WarfieldOrderingOptimizer.Optimize ("store to graph")
storeToGraph(nodePosition, best) ==
    LET placed == UNION {Range(best[y]) : y \in DOMAIN best}
    IN [n \in (DOMAIN nodePosition) \cup placed |->
           IF n \in placed
           THEN LET y == CHOOSE k \in DOMAIN best : n \in Range(best[k])
                IN LayerPosition(y - 1, IndexIn0(best[y], n))
           ELSE nodePosition[n]]

(***************************************************************************)
(* Brandes-Kopf horizontal coordinate assignment.  The routines read the   *)
(* layers through g.Layers(); ls is the value it returned.                 *)
(***************************************************************************)
\* math.MaxInt and math.MinInt at the width of the integers of the model; the
\* routines compare with them and never add to them
MaxInt == 2147483647

MinInt == (-MaxInt) - 1

RECURSIVE Ascending(_)
\* the members of a set of numbers as a sequence
Ascending(S) ==
    IF S = {} THEN <<>>
    ELSE TheOne({<<m>> \o Ascending(rest) : <<m, rest>> \in
                    {<<c, S \ {c}>> : c \in {MinOf(S)}}})

Reverse(s) == [k \in 1..Len(s) |-> s[Len(s) - k + 1]]

\* LayeredGraph.IsInnerSegment
IsInnerSegment(l, segment) == segment[1] \in l.Dummy /\ segment[2] \in l.Dummy

\* LayeredGraph.UpperNeighbors: every slice it can return, over the orders of
\* the range over g.Segments
UpperNeighbors(l, node) ==
    {LET sel == SelectSeq(segOrder, LAMBDA e :
                    /\ e[2] = node
                    /\ PosOf(l.NodePosition, e[1]).Layer
                         = PosOf(l.NodePosition, e[2]).Layer - 1)
     IN [k \in 1..Len(sel) |-> sel[k][1]] : segOrder \in Perms(l.Segments)}

\* LayeredGraph.LowerNeighbors: every slice it can return; it appends e[0]
LowerNeighbors(l, node) ==
    {LET sel == SelectSeq(segOrder, LAMBDA e :
                    /\ e[1] = node
                    /\ PosOf(l.NodePosition, e[1]).Layer
                         = PosOf(l.NodePosition, e[2]).Layer - 1)
     IN [k \in 1..Len(sel) |-> sel[k][1]] : segOrder \in Perms(l.Segments)}

\* a slice of the nodes of S left in the order of the range that filled it
unsortedNeighbors(l, S) == Perms(S)

\* a slice of the nodes of S after sort.Slice with IsLeftOf: every outcome
sortedByOrder(l, S) ==
    sortSlice(S, LAMBDA a, b : IsLeftOf(l.NodePosition[a], l.NodePosition[b]))

\* computeOrderedNeighbors: every value it can return
computeOrderedNeighbors(l) ==
    LET nodes == Ascending(DOMAIN l.NodePosition)
        asMap(s) == [v \in DOMAIN l.NodePosition |-> s[IndexIn0(nodes, v) + 1]]
        ups == SeqProduct([k \in 1..Len(nodes) |->
                   sortedByOrder(l, {e[1] : e \in {f \in l.Segments : f[2] = nodes[k]}})])
        downs == SeqProduct([k \in 1..Len(nodes) |->
                   sortedByOrder(l, {e[2] : e \in {f \in l.Segments : f[1] = nodes[k]}})])
    IN {[Up |-> asMap(u), Down |-> asMap(d)] : u \in ups, d \in downs}

\* preprocessing: the first upper neighbour of v on an inner segment, 0 if none
upperNeighborInnerSegment(l, n, v) ==
    LET inner == SelectSeq(n.Up[v], LAMBDA u : IsInnerSegment(l, <<u, v>>))
    IN IF inner = <<>> THEN 0 ELSE Head(inner)

\* preprocessing: the pairs marked by the loop "for l <= l1"
markedPairs(n, nextLayer, l, l1, k0, k1) ==
    UNION {{<<n.Up[w][k + 1], nextLayer[l1 + 1]>> :
               k \in {c \in 0..(Len(n.Up[w]) - 1) : c < k0 \/ c > k1}}
           : w \in {nextLayer[c + 1] : c \in l..l1}}

RECURSIVE preprocessLayer(_, _, _, _, _, _, _, _)
\* preprocessing: the loop over the nodes of nextLayer, from index l1 on
preprocessLayer(lgr, n, upperLen, nextLayer, l1, k0, l, marked) ==
    IF l1 >= Len(nextLayer) THEN marked
    ELSE LET v == nextLayer[l1 + 1]
             inner == upperNeighborInnerSegment(lgr, n, v)
         IN IF l1 = Len(nextLayer) - 1 \/ inner # 0
            THEN LET k1 == IF inner # 0 THEN lgr.NodePosition[inner].Order
                           ELSE upperLen - 1
                 IN TheOne({preprocessLayer(lgr, n, upperLen, nextLayer, l1 + 1,
                                            k, ln, m) :
                               k \in {k1},
                               ln \in {IF l <= l1 THEN l1 + 1 ELSE l},
                               m \in {marked \cup
                                          markedPairs(n, nextLayer, l, l1, k0, k1)}})
            ELSE preprocessLayer(lgr, n, upperLen, nextLayer, l1 + 1, k0, l, marked)

\* preprocessing: the set typeOneSegments
preprocessing(lgr, n, ls) ==
    UNION {preprocessLayer(lgr, n, Len(ls[i]), ls[i + 1], 0, 0, 0, {})
           : i \in 1..(Len(ls) - 1)}

\* verticalAlignment: the indices m it tries for d neighbours, in its order
medianIndices(left, d) ==
    IF left
    THEN LET lo == (d - 1) \div 2
             hi == IF (d + 1) \div 2 < d THEN (d + 1) \div 2 ELSE d - 1
         IN [k \in 1..(hi - lo + 1) |-> lo + k - 1]
    ELSE LET first == IF (d + 1) \div 2 >= d THEN d - 1 ELSE (d + 1) \div 2
             last == (d - 1) \div 2
         IN [k \in 1..(first - last + 1) |-> first - k + 1]

RECURSIVE alignNodeAnyOrder(_, _, _, _, _, _, _, _)
\* alignNode without the comparison of r with the order of u
alignNodeAnyOrder(top, left, lgr, typeOne, nbs, v, ms, st) ==
    IF ms = <<>> THEN st
    ELSE LET u == nbs[Head(ms) + 1]
             segment == IF top THEN <<u, v>> ELSE <<v, u>>
             next == IF st.align[v] = v /\ segment \notin typeOne
                     THEN [root |-> [st.root EXCEPT ![v] = st.root[u]],
                           align |-> [st.align EXCEPT ![u] = v, ![v] = st.root[u]],
                           r |-> lgr.NodePosition[u].Order]
                     ELSE st
         IN TheOne({alignNodeAnyOrder(top, left, lgr, typeOne, nbs, v, Tail(ms), s) :
                       s \in {next}})

RECURSIVE alignNode(_, _, _, _, _, _, _, _)
\* verticalAlignment: the loop over m for the node v; st is [root, align, r]
alignNode(top, left, lgr, typeOne, nbs, v, ms, st) ==
    IF ms = <<>> THEN st
    ELSE LET u == nbs[Head(ms) + 1]
             segment == IF top THEN <<u, v>> ELSE <<v, u>>
             order == lgr.NodePosition[u].Order
             free == IF left THEN st.r < order ELSE st.r > order
             next == IF st.align[v] = v /\ segment \notin typeOne /\ free
                     THEN [root |-> [st.root EXCEPT ![v] = st.root[u]],
                           align |-> [st.align EXCEPT ![u] = v, ![v] = st.root[u]],
                           r |-> order]
                     ELSE st
         IN TheOne({alignNode(top, left, lgr, typeOne, nbs, v, Tail(ms), s) :
                       s \in {next}})

RECURSIVE alignLayerNodes(_, _, _, _, _, _, _)
\* verticalAlignment: the loop over the nodes vs of one layer
alignLayerNodes(top, left, lgr, typeOne, n, vs, st) ==
    IF vs = <<>> THEN st
    ELSE LET v == Head(vs)
             nbs == IF top THEN n.Up[v] ELSE n.Down[v]
             next == IF Len(nbs) > 0
                     THEN alignNode(top, left, lgr, typeOne, nbs, v,
                                    medianIndices(left, Len(nbs)), st)
                     ELSE st
         IN TheOne({alignLayerNodes(top, left, lgr, typeOne, n, Tail(vs), s) :
                       s \in {next}})

RECURSIVE alignLayers(_, _, _, _, _, _, _, _)
\* verticalAlignment: the loop over the layers, whose Go indices are in idxs
alignLayers(top, left, lgr, typeOne, n, ls, idxs, st) ==
    IF idxs = <<>> THEN st
    ELSE LET layer == ls[Head(idxs) + 1]
             start == [st EXCEPT !.r = IF left THEN -1 ELSE MaxInt]
             next == alignLayerNodes(top, left, lgr, typeOne, n,
                                     IF left THEN layer ELSE Reverse(layer), start)
         IN TheOne({alignLayers(top, left, lgr, typeOne, n, ls, Tail(idxs), s) :
                       s \in {next}})

\* the Go indices of the layers in the order a variant visits them
layerIndices(top, ls) ==
    IF top THEN [k \in 1..Len(ls) |-> k - 1] ELSE [k \in 1..Len(ls) |-> Len(ls) - k]

\* verticalAlignment of the variant (top, left): [root, align]
verticalAlignment(top, left, lgr, typeOne, n, ls) ==
    LET self == [v \in DOMAIN lgr.NodePosition |-> v]
    IN TheOne({[root |-> st.root, align |-> st.align] :
                  st \in {alignLayers(top, left, lgr, typeOne, n, ls,
                                      layerIndices(top, ls),
                                      [root |-> self, align |-> self, r |-> 0])}})

\* reading the map x: the zero value when the key is absent
XOf(x, v) == IF v \in DOMAIN x THEN x[v] ELSE 0

RECURSIVE placeBlockCopy(_, _, _, _)
\* placeBlock: the loop "for align[w] != v"; st is [x, sink, shift, panic]
placeBlockCopy(align, v, w, st) ==
    IF align[w] = v THEN st
    ELSE LET wn == align[w]
         IN TheOne({placeBlockCopy(align, v, wn, s) :
                       s \in {[st EXCEPT !.x = Put(@, wn, XOf(st.x, v)),
                                         !.sink[wn] = st.sink[v]]}})

RECURSIVE placeBlock(_, _, _, _, _, _, _, _)
RECURSIVE placeBlockLoop(_, _, _, _, _, _, _, _, _)
\* placeBlock: the loop over the members w of the block of v
placeBlockLoop(left, lgr, ls, root, align, delta, v, w, st) ==
    LET p == lgr.NodePosition[w]
        has == IF left THEN p.Order > 0 ELSE p.Order < Len(ls[p.Layer + 1]) - 1
        u == root[ls[p.Layer + 1][IF left THEN p.Order ELSE p.Order + 2]]
        \* the statements after the call placeBlock(..., u, ...), b the state
        \* after "if sink[v] == v { sink[v] = sink[u] }"
        separate(b) ==
            IF b.sink[v] # b.sink[u]
            THEN LET s == IF left THEN XOf(b.x, v) - XOf(b.x, u) - delta
                          ELSE XOf(b.x, v) + XOf(b.x, u) + delta
                     better == IF left THEN s < b.shift[b.sink[u]]
                               ELSE s > b.shift[b.sink[u]]
                 IN IF better THEN [b EXCEPT !.shift[b.sink[u]] = s] ELSE b
            ELSE LET s == IF left THEN XOf(b.x, u) + delta ELSE XOf(b.x, u) - delta
                     better == IF left THEN s > XOf(b.x, v) ELSE s < XOf(b.x, v)
                 IN IF better THEN [b EXCEPT !.x = Put(@, v, s)] ELSE b
        placed ==
            IF ~ has THEN st
            ELSE TheOne({separate(b) : b \in
                    {IF a.sink[v] = v THEN [a EXCEPT !.sink[v] = a.sink[u]] ELSE a :
                        a \in {placeBlock(left, lgr, ls, root, align, delta, u, st)}}})
        wn == align[w]
    IN TheOne({IF wn = v THEN s
               ELSE placeBlockLoop(left, lgr, ls, root, align, delta, v, wn, s) :
                  s \in {placed}})

\* placeBlock of the variants *Left (left) and *Right
placeBlock(left, lgr, ls, root, align, delta, v, st) ==
    IF v \in DOMAIN st.x THEN st
    ELSE TheOne({placeBlockCopy(align, v, v, s) : s \in
                    {placeBlockLoop(left, lgr, ls, root, align, delta, v, v, s0) :
                        s0 \in {[st EXCEPT !.x = Put(@, v, 0)]}}})

RECURSIVE placeRoots(_, _, _, _, _, _, _, _)
\* horizontalCompaction: "root coordinates relative to sink", the nodes in the
\* order the range over g.NodePosition yields them
placeRoots(left, lgr, ls, root, align, delta, nodeOrder, st) ==
    IF nodeOrder = <<>> THEN st
    ELSE LET v == Head(nodeOrder)
         IN TheOne({placeRoots(left, lgr, ls, root, align, delta, Tail(nodeOrder), s) :
                       s \in {IF root[v] = v
                              THEN placeBlock(left, lgr, ls, root, align, delta, v, st)
                              ELSE st}})

RECURSIVE walkBlock(_, _, _, _, _, _, _, _, _, _)
\* horizontalCompaction: the loop "for align[v] != root[v]"; the result is [v, j, st]
walkBlock(top, left, lgr, ls, root, align, delta, v, j, st) ==
    IF align[v] = root[v] THEN [v |-> v, j |-> j, st |-> st]
    ELSE LET vn == align[v]
             jn == IF top THEN j + 1 ELSE j - 1
             p == lgr.NodePosition[vn]
             has == IF left THEN p.Order > 0 ELSE p.Order < Len(ls[jn + 1]) - 1
             next ==
                 IF ~ has THEN st
                 ELSE LET u == ls[p.Layer + 1][IF left THEN p.Order ELSE p.Order + 2]
                          shifted == IF left
                                     THEN st.shift[st.sink[vn]] + XOf(st.x, vn) - (XOf(st.x, u) + delta)
                                     ELSE st.shift[st.sink[vn]] + XOf(st.x, vn) - (XOf(st.x, u) - delta)
                          better == IF left THEN shifted < st.shift[st.sink[u]]
                                    ELSE shifted > st.shift[st.sink[u]]
                      IN IF better THEN [st EXCEPT !.shift[st.sink[u]] = shifted] ELSE st
         IN TheOne({walkBlock(top, left, lgr, ls, root, align, delta, vn, jn, s) :
                       s \in {next}})

RECURSIVE classLoop(_, _, _, _, _, _, _, _, _, _)
\* horizontalCompaction: the loop "for { ... }" over the blocks of one class
classLoop(top, left, lgr, ls, root, align, delta, j, k, st) ==
    LET \* the statements after the loop "for align[v] != root[v]", w its result
        nextBlock(w) ==
            LET kn == lgr.NodePosition[w.v].Order + (IF left THEN 1 ELSE -1)
                past == IF left THEN kn > Len(ls[w.j + 1]) - 1 ELSE kn < 0
            IN IF past \/ w.st.sink[w.v] # w.st.sink[ls[w.j + 1][kn + 1]]
               THEN w.st
               ELSE classLoop(top, left, lgr, ls, root, align, delta, w.j, kn, w.st)
    IN TheOne({nextBlock(w) : w \in
                  {walkBlock(top, left, lgr, ls, root, align, delta,
                             ls[j + 1][k + 1], j, st)}})

RECURSIVE classOffsets(_, _, _, _, _, _, _, _, _)
\* horizontalCompaction: "class offsets", the layers with Go indices idxs;
\* layer[0] of an empty layer is an index out of range
classOffsets(top, left, lgr, ls, root, align, delta, idxs, st) ==
    IF idxs = <<>> THEN st
    ELSE LET i == Head(idxs)
             layer == ls[i + 1]
         IN IF layer = <<>> THEN [st EXCEPT !.panic = TRUE]
            ELSE LET vfirst == IF left THEN layer[1] ELSE layer[Len(layer)]
                     sentinel == IF left THEN MaxInt ELSE MinInt
                     start == IF st.shift[st.sink[vfirst]] = sentinel
                              THEN [st EXCEPT !.shift[st.sink[vfirst]] = 0]
                              ELSE st
                     next == IF st.sink[vfirst] = vfirst
                             THEN TheOne({classLoop(top, left, lgr, ls, root, align,
                                                    delta, i,
                                                    IF left THEN 0 ELSE Len(layer) - 1,
                                                    s) : s \in {start}})
                             ELSE st
                 IN TheOne({classOffsets(top, left, lgr, ls, root, align, delta,
                                         Tail(idxs), s) : s \in {next}})

\* horizontalCompaction of the variant (top, left): [x, panic]
horizontalCompaction(top, left, lgr, ls, root, align, delta, nodeOrder) ==
    LET nodes == DOMAIN lgr.NodePosition
        init == [x |-> EmptyMap, sink |-> [v \in nodes |-> v],
                 shift |-> [v \in nodes |-> IF left THEN MaxInt ELSE MinInt],
                 panic |-> FALSE]
        \* "absolute coordinates", st the state after "class offsets"
        absolute(st) ==
            IF st.panic THEN [x |-> EmptyMap, panic |-> TRUE]
            ELSE [x |-> [v \in nodes |-> XOf(st.x, v) + st.shift[st.sink[v]]],
                  panic |-> FALSE]
    IN TheOne({absolute(st) : st \in
                  {classOffsets(top, left, lgr, ls, root, align, delta,
                                layerIndices(top, ls), rel) :
                      rel \in {placeRoots(left, lgr, ls, root, align, delta,
                                          nodeOrder, s0) : s0 \in {init}}}})

\* runAlgo: the LayoutResult, with root and align, and whether it panicked
runAlgo(top, left, lgr, typeOne, n, ls, delta, nodeOrder) ==
    LET \* the LayoutResult of the coordinates hc, with minX and maxX
        result(va, hc) ==
            LET vals == {hc.x[v] : v \in DOMAIN hc.x}
            IN [x |-> hc.x,
                minX |-> IF vals = {} THEN MaxInt ELSE MinOf(vals),
                maxX |-> IF vals = {} THEN MinInt ELSE MaxOf(vals),
                root |-> va.root, align |-> va.align, panic |-> hc.panic]
    IN TheOne({result(pair[1], pair[2]) : pair \in
                  {<<va, horizontalCompaction(top, left, lgr, ls, va.root, va.align,
                                              delta, nodeOrder)>> :
                      va \in {verticalAlignment(top, left, lgr, typeOne, n, ls)}}})

\* LayoutResult.width
width(r) == r.maxX - r.minX

RECURSIVE sortInts(_)
\* sort.Ints
sortInts(s) ==
    IF s = <<>> THEN <<>>
    ELSE LET m == MinOf(Range(s))
             k == CHOOSE c \in DOMAIN s : s[c] = m
         IN TheOne({<<s[k]>> \o sortInts(rest) :
                       rest \in {SubSeq(s, 1, k - 1) \o SubSeq(s, k + 1, Len(s))}})

\* the Go quotient a / b: truncated toward zero
goDiv(a, b) ==
    LET q == (IF a < 0 THEN -a ELSE a) \div (IF b < 0 THEN -b ELSE b)
    IN IF (a < 0) = (b < 0) THEN q ELSE -q

\* NodesHorizontalCoordinates: x[n] from the sorted places
middle(place) == goDiv(place[2] + place[3], 2)

\* NodesHorizontalCoordinates after the runs: the narrowest layout, the shifts
\* and the map x
combine(lgr, resTL, resTR, resBL, resBR) ==
    LET b1 == IF width(resTR) < width(resTL) THEN resTR ELSE resTL
        b2 == IF width(resBL) < width(b1) THEN resBL ELSE b1
        best == IF width(resBR) < width(b2) THEN resBR ELSE b2
        shiftTL == best.minX - resTL.minX
        shiftTR == best.maxX - resTR.maxX
        shiftBL == best.minX - resBL.minX
        shiftBR == best.maxX - resBR.maxX
    IN [n \in DOMAIN lgr.NodePosition |->
           TheOne({middle(place) : place \in
                      {sortInts(places) : places \in
                          {<<resTL.x[n] + shiftTL, resTR.x[n] + shiftTR,
                             resBL.x[n] + shiftBL, resBR.x[n] + shiftBR>>}}})]

\* neither UpperNeighbors nor LowerNeighbors has been called
NotCalled == [method |-> "", node |-> 0, result |-> <<>>]

\* the ordering routines are not in use
NoWarfield ==
    /\ cfg = [Epochs |-> 0]
    /\ bestLayers = <<>>
    /\ bestN = -1
    /\ tEpoch = 0
    /\ iLayer = 0
    /\ log = <<>>

\* the coordinate routines have not run
NoCoordinates ==
    /\ orderedNeighbors = [Up |-> EmptyMap, Down |-> EmptyMap]
    /\ typeOneSegments = {}
    /\ res = EmptyMap
    /\ nodeX = EmptyMap
    /\ out = [Nodes |-> EmptyMap, Edges |-> EmptyMap,
              nodeY |-> EmptyMap, allNodesXY |-> EmptyMap]

(***************************************************************************)
(* Specification of the layered graph construction.                        *)
(***************************************************************************)
Init ==
    /\ g \in {gr \in Graphs : WellFormed(gr)}
    /\ pc = "input"
    /\ levels = EmptyMap
    /\ found = NotCalled
    /\ lg = EmptyLayeredGraph
    /\ layers = <<>>
    /\ N = 0
    /\ NoWarfield
    /\ NoCoordinates

\* every value assignLevels can return, over the orders of its map ranges
assignLevelsOutcomes(gr) ==
    {assignLevels(gr, eo, roots) : eo \in Perms(gr.Edges), roots \in Roots(gr)}

\* NewLayeredGraph(g): assignLevels, then makeEdges, makeSegments, makeDummy
Build ==
    /\ pc = "input"
    /\ \E positions \in assignLevelsOutcomes(g), eo \in Perms(g.Edges) :
         /\ levels' = positions
         /\ lg' = NewLayeredGraph(g, positions, eo)
    /\ pc' = "layered"
    /\ UNCHANGED <<found, g, layers, N, warfieldVars, coordVars>>

Next == Build

Spec == Init /\ [][Next]_vars

(***************************************************************************)
(* Specification of the crossing counter: two ordered layers and a set of  *)
(* segments between them.                                                  *)
(***************************************************************************)
InitCross ==
    /\ pc = "count"
    /\ g = [Nodes |-> {}, Edges |-> {}]
    /\ levels = EmptyMap
    /\ found = NotCalled
    /\ \E a \in 0..MaxTop, b \in 0..MaxBottom :
         \E top \in Perms(1..a), bottom \in Perms((MaxTop + 1)..(MaxTop + b)) :
           /\ layers = <<top, bottom>>
           /\ \E segs \in SUBSET (Range(top) \X Range(bottom)) :
                /\ Cardinality(segs) <= MaxCrossSegments
                /\ lg = [NodePosition |->
                            [n \in Range(top) \cup Range(bottom) |->
                                IF n \in Range(top)
                                THEN LayerPosition(0, (CHOOSE k \in DOMAIN top : top[k] = n) - 1)
                                ELSE LayerPosition(1, (CHOOSE k \in DOMAIN bottom : bottom[k] = n) - 1)],
                         Segments |-> segs, Dummy |-> {}, Edges |-> EmptyMap]
    /\ N = -1
    /\ NoWarfield
    /\ NoCoordinates

\* a call of numCrossingsBetweenLayers(segments, top, bottom)
CountCrossings ==
    /\ pc = "count"
    /\ N' = numCrossingsBetweenLayers(lg.Segments, layers[1], layers[2])
    /\ pc' = "counted"
    /\ UNCHANGED <<found, g, levels, lg, layers, warfieldVars, coordVars>>

NextCross == CountCrossings

SpecCross == InitCross /\ [][NextCross]_vars
(***************************************************************************)
(* Specification of the ordering phase: WarfieldOrderingOptimizer.Optimize *)
(* on the layered graph of a small graph, one step per call of the layer   *)
(* optimizer and one per end of epoch.                                     *)
(***************************************************************************)
\* graphs on the nodes 1..n whose edges go from a smaller to a larger id
UpGraphs(maxNodes, maxEdges) ==
    UNION {{[Nodes |-> 1..n, Edges |-> E] :
               E \in {F \in SUBSET {e \in (1..n) \X (1..n) : e[1] < e[2]} :
                         Cardinality(F) <= maxEdges}}
           : n \in 0..maxNodes}

\* every LayeredGraph NewLayeredGraph can return for gr
NewLayeredGraphOutcomes(gr) ==
    {NewLayeredGraph(gr, positions, eo) :
        positions \in assignLevelsOutcomes(gr), eo \in Perms(gr.Edges)}

Optimizer(kind, epochs, optimizers) ==
    [kind |-> kind, Epochs |-> epochs, Optimizers |-> optimizers]

WMedian == Optimizer("WMedian", 0, <<>>)
SwitchAdjacent == Optimizer("SwitchAdjacent", 0, <<>>)

Optimizers ==
    {WMedian, SwitchAdjacent,
     Optimizer("Composite", 0, <<WMedian, SwitchAdjacent>>)}
    \cup {Optimizer("Random", k, <<>>) : k \in 1..MaxRandomEpochs}

WarfieldConfigs ==
    [Epochs : 0..MaxEpochs, LayerOrderingInitializer : {"BFS", "Random"},
     LayerOrderingOptimizer : Optimizers]

InitOrder ==
    /\ g \in UpGraphs(MaxOrderNodes, MaxOrderEdges)
    /\ levels = EmptyMap
    /\ found = NotCalled
    /\ lg \in NewLayeredGraphOutcomes(g)
    /\ pc = "validated"
    /\ cfg \in WarfieldConfigs
    /\ layers = <<>>
    /\ N = -1
    /\ bestLayers = <<>>
    /\ bestN = -1
    /\ tEpoch = 0
    /\ iLayer = 0
    /\ log = <<>>
    /\ NoCoordinates

\* WarfieldOrderingOptimizer.Optimize up to its loop: Layers, Init, bestLayers
OptimizeStart ==
    /\ pc = "validated"
    /\ \E ls \in Layers(lg) :
         \E initial \in InitOutcomes(cfg.LayerOrderingInitializer, lg.Segments, ls) :
           /\ layers' = initial
           /\ bestLayers' = newLayersFrom(initial)
    /\ bestN' = -1
    /\ tEpoch' = 0
    /\ iLayer' = 0
    /\ pc' = "epoch"
    /\ UNCHANGED <<found, g, levels, lg, N, cfg, log, coordVars>>

\* the layer visited by step i of epoch t, and the direction flag
downUpOf(epoch) == (epoch % 2) = 0

visitedLayer(epoch, k, ls) ==
    IF downUpOf(epoch) THEN Len(ls) - 1 - k ELSE k

\* one call o.LayerOrderingOptimizer.Optimize(lg.Segments, layers, j, downUp)
OptimizeLayer ==
    /\ pc = "epoch"
    /\ tEpoch < cfg.Epochs
    /\ iLayer < Len(layers)
    /\ layers' \in Optimize(cfg.LayerOrderingOptimizer, lg.Segments, layers,
                            visitedLayer(tEpoch, iLayer, layers), downUpOf(tEpoch))
    /\ iLayer' = iLayer + 1
    /\ UNCHANGED <<found, pc, g, levels, lg, N, cfg, bestLayers, bestN, tEpoch, log, coordVars>>

\* trackBest without the comparison: the last epoch is kept
trackLast(best, bestLs, n, ls) == [bestN |-> n, bestLayers |-> ls]

\* the best tracker of one epoch: bestN and bestLayers after "if bestN < 0 || N < bestN"
trackBest(best, bestLs, n, ls) ==
    IF best < 0 \/ n < best
    THEN [bestN |-> n, bestLayers |-> ls]
    ELSE [bestN |-> best, bestLayers |-> bestLs]

\* the end of an epoch: count, track the best, log, leave the loop at 0 crossings
EpochEnd ==
    /\ pc = "epoch"
    /\ tEpoch < cfg.Epochs
    /\ iLayer = Len(layers)
    /\ N' = numCrossings(lg.Segments, layers)
    /\ LET b == trackBest(bestN, bestLayers, N', layers)
       IN /\ bestN' = b.bestN
          /\ bestLayers' = b.bestLayers
          /\ log' = Append(log, [epoch |-> tEpoch, best |-> b.bestN,
                                 current |-> N', layers |-> layers])
    /\ IF N' = 0
       THEN pc' = "store" /\ UNCHANGED <<tEpoch, iLayer>>
       ELSE pc' = "epoch" /\ tEpoch' = tEpoch + 1 /\ iLayer' = 0
    /\ UNCHANGED <<found, g, levels, lg, layers, cfg, coordVars>>

\* after the loop: bestLayers is stored to lg.NodePosition
StoreToGraph ==
    /\ \/ pc = "store"
       \/ pc = "epoch" /\ tEpoch >= cfg.Epochs
    /\ lg' = [lg EXCEPT !.NodePosition = storeToGraph(@, bestLayers)]
    /\ pc' = "ordered"
    /\ UNCHANGED <<found, g, levels, layers, N, cfg, bestLayers, bestN, tEpoch, iLayer, log,
                   coordVars>>

NextOrder == OptimizeStart \/ OptimizeLayer \/ EpochEnd \/ StoreToGraph

SpecOrder == InitOrder /\ [][NextOrder]_vars

(***************************************************************************)
(* Specification of the horizontal coordinates: NodesHorizontalCoordinates *)
(* on an ordered layered graph, one step per run of a variant.             *)
(***************************************************************************)
\* a graph with two edges that each cross two layers
TwoLongEdges ==
    [Nodes |-> 1..6,
     Edges |-> {<<2, 3>>, <<3, 4>>, <<4, 5>>, <<2, 5>>, <<1, 5>>, <<1, 6>>}]

BKGraphs == UpGraphs(MaxBKNodes, MaxBKEdges) \cup {TwoLongEdges}

\* the layered graphs of gr with every ordering of every layer
OrderedLayeredGraphs(gr) ==
    UNION {{[l EXCEPT !.NodePosition = storeToGraph(@, ls)] : ls \in Layers(l)}
           : l \in NewLayeredGraphOutcomes(gr)}

BKConfigs == [Delta : 1..MaxDelta, TopDownOnly : BOOLEAN]

\* the orders in which a range over the keys S is taken
rangeOrders(S) ==
    IF Cardinality(S) <= MaxRangeNodes THEN Perms(S)
    ELSE {Ascending(S), Reverse(Ascending(S))}

\* NodesHorizontalCoordinates once the neighbours n and typeOne are computed:
\* every [x, panic] it can return, over the orders of the map ranges
horizontalOutcomesWith(l, delta, topDownOnly, n, typeOne) ==
    LET runs(top, left) ==
            {runAlgo(top, left, l, typeOne, n, ls, delta, nodeOrder) :
                ls \in Layers(l), nodeOrder \in rangeOrders(DOMAIN l.NodePosition)}
        outcome(tl, tr, bl, br) ==
            IF tl.panic \/ tr.panic \/ bl.panic \/ br.panic
            THEN [x |-> EmptyMap, panic |-> TRUE]
            ELSE [x |-> combine(l, tl, tr, bl, br), panic |-> FALSE]
    IN IF topDownOnly
       THEN {outcome(tl, tr, tl, tr) :
                tl \in runs(TRUE, TRUE), tr \in runs(TRUE, FALSE)}
       ELSE {outcome(tl, tr, bl, br) :
                tl \in runs(TRUE, TRUE), tr \in runs(TRUE, FALSE),
                bl \in runs(FALSE, TRUE), br \in runs(FALSE, FALSE)}

\* NodesHorizontalCoordinates: every [x, panic] a call on l can return
NodesHorizontalCoordinatesOutcomes(l, delta, topDownOnly) ==
    UNION {horizontalOutcomesWith(l, delta, topDownOnly, p[1], p[2]) :
              p \in {<<n, preprocessing(l, n, ls)>> :
                        n \in computeOrderedNeighbors(l), ls \in Layers(l)}}

InitBK ==
    /\ g \in BKGraphs
    /\ levels = EmptyMap
    /\ found = NotCalled
    /\ lg \in OrderedLayeredGraphs(g)
    /\ pc = "ordered"
    /\ cfg \in BKConfigs
    /\ layers = <<>>
    /\ N = -1
    /\ bestLayers = <<>>
    /\ bestN = -1
    /\ tEpoch = 0
    /\ iLayer = 0
    /\ log = <<>>
    /\ NoCoordinates

\* NodesHorizontalCoordinates: computeOrderedNeighbors and preprocessing
Preprocess ==
    /\ pc = "ordered"
    /\ \E n \in computeOrderedNeighbors(lg), ls \in Layers(lg) :
         /\ orderedNeighbors' = n
         /\ typeOneSegments' = preprocessing(lg, n, ls)
    /\ pc' = "TL"
    /\ UNCHANGED <<found, g, levels, lg, layers, N, warfieldVars, res, nodeX, out>>

\* every LayoutResult runAlgo can return for the variant (top, left)
runAlgoOutcomes(top, left) ==
    {runAlgo(top, left, lg, typeOneSegments, orderedNeighbors, ls, cfg.Delta, nodeOrder) :
        ls \in Layers(lg), nodeOrder \in rangeOrders(DOMAIN lg.NodePosition)}

\* resTL := runAlgo(TopLeft{}, ...)
RunTopLeft ==
    /\ pc = "TL"
    /\ \E r \in runAlgoOutcomes(TRUE, TRUE) :
         IF r.panic THEN pc' = "panic" /\ UNCHANGED res
         ELSE pc' = "TR" /\ res' = Put(res, "TL", r)
    /\ UNCHANGED <<found, g, levels, lg, layers, N, warfieldVars, orderedNeighbors, typeOneSegments,
                   nodeX, out>>

\* resTR := runAlgo(TopRight{}, ...); resBL := resTL; resBR := resTR
RunTopRight ==
    /\ pc = "TR"
    /\ \E r \in runAlgoOutcomes(TRUE, FALSE) :
         IF r.panic THEN pc' = "panic" /\ UNCHANGED res
         ELSE /\ pc' = IF cfg.TopDownOnly THEN "combine" ELSE "BL"
              /\ res' = Put(Put(Put(res, "TR", r), "BL", res["TL"]), "BR", r)
    /\ UNCHANGED <<found, g, levels, lg, layers, N, warfieldVars, orderedNeighbors, typeOneSegments,
                   nodeX, out>>

\* resBL = runAlgo(BottomLeft{}, ...)
RunBottomLeft ==
    /\ pc = "BL"
    /\ \E r \in runAlgoOutcomes(FALSE, TRUE) :
         IF r.panic THEN pc' = "panic" /\ UNCHANGED res
         ELSE pc' = "BR" /\ res' = Put(res, "BL", r)
    /\ UNCHANGED <<found, g, levels, lg, layers, N, warfieldVars, orderedNeighbors, typeOneSegments,
                   nodeX, out>>

\* resBR = runAlgo(BottomRight{}, ...)
RunBottomRight ==
    /\ pc = "BR"
    /\ \E r \in runAlgoOutcomes(FALSE, FALSE) :
         IF r.panic THEN pc' = "panic" /\ UNCHANGED res
         ELSE pc' = "combine" /\ res' = Put(res, "BR", r)
    /\ UNCHANGED <<found, g, levels, lg, layers, N, warfieldVars, orderedNeighbors, typeOneSegments,
                   nodeX, out>>

\* the rest of NodesHorizontalCoordinates: best, the shifts and x
Combine ==
    /\ pc = "combine"
    /\ nodeX' = combine(lg, res["TL"], res["TR"], res["BL"], res["BR"])
    /\ pc' = "horizontal"
    /\ UNCHANGED <<found, g, levels, lg, layers, N, warfieldVars, orderedNeighbors, typeOneSegments,
                   res, out>>

NextBK ==
    Preprocess \/ RunTopLeft \/ RunTopRight \/ RunBottomLeft \/ RunBottomRight \/ Combine

SpecBK == InitBK /\ [][NextBK]_vars

(***************************************************************************)
(* Specification of the pipeline:                                          *)
(* SugiyamaLayersStrategyGraphLayout.UpdateGraphLayout with NewLayeredGraph*)
(* as LevelsAssigner, WarfieldOrderingOptimizer, the Brandes-Kopf          *)
(* horizontal assigner, a vertical assigner y = layer * RowHeight,         *)
(* StraightEdgePathAssigner and a cycle remover that changes nothing.      *)
(***************************************************************************)
Position(x, y) == [X |-> x, Y |-> y]

Node(x, y, w, h) == [X |-> x, Y |-> y, W |-> w, H |-> h]

\* Node.CenterXY
CenterXY(n) == Position(n.X + goDiv(n.W, 2), n.Y + goDiv(n.H, 2))

\* a graph with an edge that crosses a layer
OneLongEdge == [Nodes |-> 1..3, Edges |-> {<<1, 2>>, <<2, 3>>, <<1, 3>>}]

LayoutGraphs == UpGraphs(MaxLayoutNodes, MaxLayoutEdges) \cup {OneLongEdge}

LayoutConfigs ==
    [Epochs : 0..MaxLayoutEpochs, LayerOrderingInitializer : {"BFS", "Random"},
     LayerOrderingOptimizer : Optimizers,
     Delta : 1..MaxDelta, TopDownOnly : BOOLEAN, RowHeight : 1..MaxRowHeight]

InitLayout ==
    /\ g \in LayoutGraphs
    /\ pc = "input"
    /\ levels = EmptyMap
    /\ found = NotCalled
    /\ lg = EmptyLayeredGraph
    /\ cfg \in LayoutConfigs
    /\ layers = <<>>
    /\ N = -1
    /\ bestLayers = <<>>
    /\ bestN = -1
    /\ tEpoch = 0
    /\ iLayer = 0
    /\ log = <<>>
    /\ orderedNeighbors = [Up |-> EmptyMap, Down |-> EmptyMap]
    /\ typeOneSegments = {}
    /\ res = EmptyMap
    /\ nodeX = EmptyMap
    /\ \E w, h \in 0..MaxSize :
         out = [Nodes |-> [n \in g.Nodes |-> Node(0, 0, w, h)],
                Edges |-> [e \in g.Edges |-> <<>>],
                nodeY |-> EmptyMap, allNodesXY |-> EmptyMap]

\* if err := lg.Validate(); err != nil { panic(err) }
ValidateLayers ==
    /\ pc = "layered"
    /\ pc' = IF Validate(lg) THEN "validated" ELSE "panic"
    /\ UNCHANGED <<found, g, levels, lg, layers, N, warfieldVars, coordVars>>

\* the vertical assigner, y(v) = layer(v) * RowHeight
NodesVerticalCoordinates(l, rowHeight) ==
    [n \in DOMAIN l.NodePosition |-> l.NodePosition[n].Layer * rowHeight]

\* nodeY and allNodesXY of UpdateGraphLayout
AssignVertical ==
    /\ pc = "horizontal"
    /\ LET nodeY == NodesVerticalCoordinates(lg, cfg.RowHeight)
       IN out' = [out EXCEPT
                    !.nodeY = nodeY,
                    !.allNodesXY = [n \in DOMAIN lg.NodePosition |->
                                       Position(XOf(nodeX, n), XOf(nodeY, n))]]
    /\ pc' = "positioned"
    /\ UNCHANGED <<found, g, levels, lg, layers, N, warfieldVars, orderedNeighbors,
                   typeOneSegments, res, nodeX>>

\* a path through the two ends of the chain only
edgePathOfEnds(nodes, allNodesXY) ==
    [k \in 1..2 |->
        LET n == IF k = 1 THEN nodes[1] ELSE nodes[Len(nodes)]
        IN IF n \in DOMAIN allNodesXY THEN allNodesXY[n] ELSE Position(0, 0)]

\* StraightEdgePathAssigner.UpdateGraphLayout: the path of the chain nodes
edgePath(nodes, allNodesXY) ==
    [k \in 1..Len(nodes) |->
        IF nodes[k] \in DOMAIN allNodesXY THEN allNodesXY[nodes[k]] ELSE Position(0, 0)]

\* StraightEdgePathAssigner.UpdateGraphLayout
AssignEdgePaths ==
    /\ pc = "positioned"
    /\ IF \/ \E e \in DOMAIN lg.Edges : e \notin DOMAIN out.Edges
          \/ Cardinality(DOMAIN lg.Edges) # Cardinality(DOMAIN out.Edges)
       THEN pc' = "panic" /\ UNCHANGED out
       ELSE /\ pc' = "paths"
            /\ out' = [out EXCEPT !.Edges =
                          [e \in DOMAIN out.Edges |->
                              edgePath(lg.Edges[e], out.allNodesXY)]]
    /\ UNCHANGED <<found, g, levels, lg, layers, N, warfieldVars, orderedNeighbors,
                   typeOneSegments, res, nodeX>>

\* "export coordinates to real nodes"
ExportNodes ==
    /\ pc = "paths"
    /\ out' = [out EXCEPT !.Nodes =
                  [n \in DOMAIN out.Nodes |->
                      Node(XOf(nodeX, n) - goDiv(out.Nodes[n].W, 2),
                           XOf(out.nodeY, n) - goDiv(out.Nodes[n].H, 2),
                           out.Nodes[n].W, out.Nodes[n].H)]]
    /\ pc' = "done"
    /\ UNCHANGED <<found, g, levels, lg, layers, N, warfieldVars, orderedNeighbors,
                   typeOneSegments, res, nodeX>>

NextLayout ==
    \/ Build \/ ValidateLayers
    \/ OptimizeStart \/ OptimizeLayer \/ EpochEnd \/ StoreToGraph
    \/ Preprocess \/ RunTopLeft \/ RunTopRight \/ RunBottomLeft \/ RunBottomRight
    \/ Combine
    \/ AssignVertical \/ AssignEdgePaths \/ ExportNodes

SpecLayout == InitLayout /\ [][NextLayout]_vars

(***************************************************************************)
(* Properties of the layered graph construction (specification Spec).      *)
(***************************************************************************)
LayerIn(l, n) == PosOf(l.NodePosition, n).Layer

Parents(gr, n) == {e[1] : e \in {d \in gr.Edges : d[2] = n}}

Diamond == {<<1, 2>>, <<1, 3>>, <<2, 4>>, <<3, 4>>}
Triangle == {<<1, 2>>, <<2, 3>>, <<1, 3>>}

\* C1: after NewLayeredGraph on an acyclic graph whose edge endpoints are
\* nodes, every segment (u, v) has layer(v) = layer(u) + 1 and Validate()
\* returns no error.
C1_SegmentsDescendOneLayer ==
    pc = "layered" =>
        /\ \A e \in lg.Segments : LayerIn(lg, e[2]) = LayerIn(lg, e[1]) + 1
        /\ Validate(lg)

\* a long edge was split: the graph has fake nodes and their segments
C1_Witness ==
    /\ pc = "layered"
    /\ WellFormed(g)
    /\ lg.Dummy # {}
    /\ Cardinality(lg.Segments) >= 3

\* C2: for every original edge (s, t) the chain starts with s and ends with
\* t, every consecutive pair of it is a segment, every interior member is in
\* Dummy, and neither s nor t is in Dummy.
C2_ChainsRealizeEdges ==
    pc = "layered" =>
        /\ DOMAIN lg.Edges = g.Edges
        /\ \A e \in g.Edges :
            LET chain == lg.Edges[e]
            IN /\ Len(chain) >= 2
               /\ chain[1] = e[1]
               /\ chain[Len(chain)] = e[2]
               /\ \A k \in 2..Len(chain) : <<chain[k - 1], chain[k]>> \in lg.Segments
               /\ \A k \in 2..(Len(chain) - 1) : chain[k] \in lg.Dummy
               /\ e[1] \notin lg.Dummy
               /\ e[2] \notin lg.Dummy

\* an edge with a chain of four nodes (two interior fake nodes)
C2_Witness ==
    /\ pc = "layered"
    /\ \E e \in g.Edges : Len(lg.Edges[e]) = 4

\* C3: no id in Dummy is the id of a node of the input graph (any key of
\* g.Nodes, with or without an edge), and the fake ids start at
\* max(original id) + 1.
C3_DummyIdsDisjoint ==
    pc = "layered" =>
        /\ lg.Dummy \cap g.Nodes = {}
        /\ lg.Dummy # {} =>
             \A d \in lg.Dummy : d >= MaxOf(g.Nodes) + 1

\* C4: assignLevels is the longest-path layering: a node without an incoming
\* edge has layer 0, any other node has layer 1 + the maximum layer of its
\* parents; the diamond gets layers 0,1,1,2 and the triangle 0,1,2.
C4_LongestPathLayering ==
    pc = "layered" =>
        /\ DOMAIN levels = g.Nodes
        /\ \A n \in g.Nodes :
             levels[n].Layer =
                 IF Parents(g, n) = {} THEN 0
                 ELSE 1 + MaxOf({levels[q].Layer : q \in Parents(g, n)})
        /\ g.Edges = Diamond =>
             /\ levels[1].Layer = 0 /\ levels[2].Layer = 1
             /\ levels[3].Layer = 1 /\ levels[4].Layer = 2
        /\ g.Edges = Triangle =>
             /\ levels[1].Layer = 0 /\ levels[2].Layer = 1
             /\ levels[3].Layer = 2

\* the diamond has been layered
C4_Witness ==
    /\ pc = "layered"
    /\ g.Edges = Diamond
    /\ levels[4].Layer = 2

(***************************************************************************)
(* Properties of the crossing counter (specification SpecCross).           *)
(***************************************************************************)
IndexIn(layer, n) == CHOOSE k \in DOMAIN layer : layer[k] = n

\* the pairs of segments between top and bottom that cross: the one that
\* starts further left in top ends further right in bottom
CrossingPairs(segments, top, bottom) ==
    {p \in segments \X segments :
        /\ p[1][1] \in Range(top) /\ p[1][2] \in Range(bottom)
        /\ p[2][1] \in Range(top) /\ p[2][2] \in Range(bottom)
        /\ IndexIn(top, p[1][1]) < IndexIn(top, p[2][1])
        /\ IndexIn(bottom, p[1][2]) > IndexIn(bottom, p[2][2])}

\* C8: numCrossingsBetweenLayers equals the naive inversion count: the number
\* of pairs of segments (top[j], bottom[i]), (top[j'], bottom[i']) with
\* j < j' and i > i'.
C8_FenwickEqualsNaive ==
    pc = "counted" =>
        N = Cardinality(CrossingPairs(lg.Segments, layers[1], layers[2]))

\* three segments that cross each other pairwise have been counted
C8_Witness ==
    /\ pc = "counted"
    /\ N = 3
    /\ Cardinality(lg.Segments) = 3

(***************************************************************************)
(* Properties of the ordering phase (specification SpecOrder).             *)
(***************************************************************************)
\* C5: after WarfieldOrderingOptimizer.Optimize, in every layer with L nodes
\* the Order values of its nodes are exactly 0 .. L-1, each used once.
C5_OrdersArePermutation ==
    pc = "ordered" =>
        \A y \in 0..maxLayer(lg) :
            LET S == NodesAt(lg, y)
            IN /\ {lg.NodePosition[n].Order : n \in S} = 0..(Cardinality(S) - 1)
               /\ \A a, b \in S :
                    lg.NodePosition[a].Order = lg.NodePosition[b].Order => a = b

\* an ordering run of at least one epoch ended on a graph with a layer of three
\* nodes, the last of which is not the node with the largest id
C5_Witness ==
    /\ pc = "ordered"
    /\ cfg.Epochs >= 1
    /\ \E y \in 0..maxLayer(lg) :
         /\ Cardinality(NodesAt(lg, y)) = 3
         /\ \E n \in NodesAt(lg, y) :
              /\ lg.NodePosition[n].Order = 2
              /\ n # MaxOf(NodesAt(lg, y))

\* C9: the best crossing count never increases from one epoch to the next,
\* and the ordering written back to NodePosition is the layering of an epoch
\* whose end-of-epoch crossing count is the minimum over the executed epochs.
C9_BestTracker ==
    /\ \A k \in 2..Len(log) : log[k].best <= log[k - 1].best
    /\ \A k \in 1..Len(log) :
         log[k].best = MinOf({log[j].current : j \in 1..k})
    /\ (pc = "ordered" /\ log # <<>>) =>
         \E k \in 1..Len(log) :
            /\ log[k].current = MinOf({log[j].current : j \in 1..Len(log)})
            /\ \A y \in DOMAIN log[k].layers :
                 \A x \in DOMAIN log[k].layers[y] :
                    lg.NodePosition[log[k].layers[y][x]] = LayerPosition(y - 1, x - 1)

\* two epochs ran, the second ended with more crossings than the first, and
\* the ordering has been written back
C9_Witness ==
    /\ pc = "ordered"
    /\ Len(log) = 2
    /\ log[2].current > log[1].current
    /\ log[2].best = log[1].current

(***************************************************************************)
(* Properties of the horizontal coordinates (specification SpecBK).        *)
(***************************************************************************)
\* the segments (a, b) and (c, d) between the same two layers cross
Crosses(l, s, t) ==
    /\ l.NodePosition[s[1]].Layer = l.NodePosition[t[1]].Layer
    /\ l.NodePosition[s[2]].Layer = l.NodePosition[t[2]].Layer
    /\ \/ /\ l.NodePosition[s[1]].Order < l.NodePosition[t[1]].Order
          /\ l.NodePosition[s[2]].Order > l.NodePosition[t[2]].Order
       \/ /\ l.NodePosition[s[1]].Order > l.NodePosition[t[1]].Order
          /\ l.NodePosition[s[2]].Order < l.NodePosition[t[2]].Order

\* a type-1 conflict: a non-inner segment crosses an inner segment
HasTypeOneConflict(l) ==
    \E s, t \in l.Segments :
        /\ ~ IsInnerSegment(l, s)
        /\ IsInnerSegment(l, t)
        /\ Crosses(l, s, t)

\* C6: in the x returned by NodesHorizontalCoordinates, two nodes u, v that
\* are adjacent in a layer (order(v) = order(u) + 1) are at least Delta apart:
\* x[v] - x[u] >= Delta.
C6_AdjacentNodesDeltaApart ==
    pc = "horizontal" =>
        \A u, v \in DOMAIN lg.NodePosition :
            (/\ lg.NodePosition[u].Layer = lg.NodePosition[v].Layer
             /\ lg.NodePosition[v].Order = lg.NodePosition[u].Order + 1)
            => nodeX[v] - nodeX[u] >= cfg.Delta

\* C7: in the x returned by NodesHorizontalCoordinates, every inner segment
\* (u, v) has x[u] = x[v] whenever the layered graph has no type-1 conflict.
C7_InnerSegmentsVertical ==
    (pc = "horizontal" /\ ~ HasTypeOneConflict(lg)) =>
        \A s \in lg.Segments :
            IsInnerSegment(lg, s) => nodeX[s[1]] = nodeX[s[2]]

(***************************************************************************)
(* Properties of the pipeline (specification SpecLayout).                  *)
(***************************************************************************)
\* C10: laying out the empty graph through UpdateGraphLayout completes without
\* a failure and yields empty outputs: no node coordinates and no edge paths.
C10_EmptyGraphEmptyOutputs ==
    (g.Nodes = {} /\ g.Edges = {}) =>
        /\ pc # "panic"
        /\ pc = "done" =>
             /\ nodeX = EmptyMap
             /\ out.nodeY = EmptyMap
             /\ out.allNodesXY = EmptyMap
             /\ out.Nodes = EmptyMap
             /\ out.Edges = EmptyMap

(***************************************************************************)
(* Specification of LayeredGraph.Validate on any value of the struct.      *)
(***************************************************************************)
MaxValidateNodes == 3

MaxValidateLayer == 2

MaxValidateSegments == 2

\* the values of LayeredGraph over the nodes 1..MaxValidateNodes: any layer
\* for each node and any few segments between them
AnyLayeredGraphs ==
    LET nodes == 1..MaxValidateNodes
    IN {[NodePosition |-> [n \in nodes |-> LayerPosition(layerOf[n], 0)],
         Segments |-> S, Dummy |-> {}, Edges |-> EmptyMap] :
           layerOf \in [nodes -> 0..MaxValidateLayer],
           S \in {T \in SUBSET (nodes \X nodes) : Cardinality(T) <= MaxValidateSegments}}

InitValidate ==
    /\ g = [Nodes |-> {}, Edges |-> {}]
    /\ pc = "layered"
    /\ levels = EmptyMap
    /\ found = NotCalled
    /\ lg \in AnyLayeredGraphs
    /\ layers = <<>>
    /\ N = -1
    /\ NoWarfield
    /\ NoCoordinates

NextValidate == ValidateLayers

SpecValidate == InitValidate /\ [][NextValidate]_vars

(***************************************************************************)
(* Properties of LayeredGraph.Validate (specification SpecValidate).       *)
(***************************************************************************)
\* C11: Validate() returns an error exactly when some segment (u, v) has
\* layer(v) # layer(u) + 1 (a segment that descends two or more layers
\* included); otherwise it returns nil.
C11_ValidateExactlyConsecutive ==
    pc \in {"validated", "panic"} =>
        ((pc = "panic") <=>
            \E e \in lg.Segments : LayerIn(lg, e[2]) # LayerIn(lg, e[1]) + 1)

(***************************************************************************)
(* Properties of the pipeline (specification SpecLayout), continued.       *)
(***************************************************************************)
\* C12: after UpdateGraphLayout with StraightEdgePathAssigner every edge
\* (s, t) of the graph has a path with one point per node of its chain; the
\* first point is the centre (CenterXY) of the stored node s and the last
\* point is the centre of the stored node t.
C12_PathsJoinCentres ==
    pc = "done" =>
        \A e \in g.Edges :
            /\ e \in DOMAIN out.Edges /\ e \in DOMAIN lg.Edges
            /\ Len(out.Edges[e]) = Len(lg.Edges[e])
            /\ out.Edges[e][1] = CenterXY(out.Nodes[e[1]])
            /\ out.Edges[e][Len(out.Edges[e])] = CenterXY(out.Nodes[e[2]])

\* the layout of a graph with a long edge is done: its path has a point for a
\* fake node, and the nodes have a width and a height whose half is not 0
C12_Witness ==
    /\ pc = "done"
    /\ \E e \in g.Edges :
         /\ Len(out.Edges[e]) = 3
         /\ out.Nodes[e[1]].W = 2
         /\ out.Nodes[e[1]].H = 2
         /\ out.Edges[e][1] # out.Edges[e][3]

(***************************************************************************)
(* Properties of the horizontal coordinates (specification SpecBK),        *)
(* continued.                                                              *)
(***************************************************************************)
\* C13: NodesHorizontalCoordinates is a function of the layered graph, Delta
\* and TopDownOnly: every call on the same LayeredGraph returns the x that
\* this call returned (or fails as this call failed), whatever the order in
\* which the maps NodePosition and Segments are iterated.
C13_HorizontalIsFunction ==
    /\ pc = "ordered" =>
         Cardinality(NodesHorizontalCoordinatesOutcomes(lg, cfg.Delta,
                                                        cfg.TopDownOnly)) = 1
    /\ pc = "horizontal" =>
         NodesHorizontalCoordinatesOutcomes(lg, cfg.Delta, cfg.TopDownOnly)
             = {[x |-> nodeX, panic |-> FALSE]}
    /\ pc = "panic" =>
         NodesHorizontalCoordinatesOutcomes(lg, cfg.Delta, cfg.TopDownOnly)
             = {[x |-> EmptyMap, panic |-> TRUE]}

\* a call returned for a graph in which a node has two upper neighbours and
\* the four variants ran: the ranges have several orders
C13_Witness ==
    /\ pc = "horizontal"
    /\ ~ cfg.TopDownOnly
    /\ Cardinality(DOMAIN lg.NodePosition) >= 4
    /\ \E v \in DOMAIN lg.NodePosition : Len(orderedNeighbors.Up[v]) >= 2
    /\ \E u, v \in DOMAIN nodeX : nodeX[u] # nodeX[v]

(***************************************************************************)
(* WarfieldOrderingOptimizer.Optimize and NewLayeredGraph as relations     *)
(* from the input to every result, over the orders of the map ranges.      *)
(***************************************************************************)
RECURSIVE epochLayers(_, _, _, _, _)
\* the layers after the steps i, i + 1, ... of epoch t: every outcome
epochLayers(optimizer, segments, ls, t, i) ==
    IF i >= Len(ls) THEN {ls}
    ELSE UNION {epochLayers(optimizer, segments, next, t, i + 1) :
                   next \in Optimize(optimizer, segments, ls,
                                     visitedLayer(t, i, ls), downUpOf(t))}

RECURSIVE warfieldEpochs(_, _, _, _, _, _)
\* bestLayers after the loop over the epochs t, t + 1, ...: every outcome
warfieldEpochs(c, segments, ls, t, best, bestLs) ==
    IF t >= c.Epochs THEN {bestLs}
    ELSE UNION {LET b == trackBest(best, bestLs, p[2], p[1])
                IN IF p[2] = 0 THEN {b.bestLayers}
                   ELSE warfieldEpochs(c, segments, p[1], t + 1, b.bestN, b.bestLayers) :
                   p \in {<<next, numCrossings(segments, next)>> :
                             next \in epochLayers(c.LayerOrderingOptimizer, segments,
                                                  ls, t, 0)}}

\* WarfieldOrderingOptimizer.Optimize: every NodePosition it can leave in l
WarfieldOutcomes(l, c) ==
    {storeToGraph(l.NodePosition, b) :
        b \in UNION {warfieldEpochs(c, l.Segments, initial, 0, -1, newLayersFrom(initial)) :
                        initial \in UNION {InitOutcomes(c.LayerOrderingInitializer,
                                                        l.Segments, ls) :
                                              ls \in Layers(l)}}}

\* NewLayeredGraph, then WarfieldOrderingOptimizer.Optimize: every pair of the
\* chains of the edges and the final NodePosition
BuildAndOrderOutcomes(gr, c) ==
    UNION {{<<l.Edges, p>> : p \in WarfieldOutcomes(l, c)} :
              l \in NewLayeredGraphOutcomes(gr)}

\* the initializer and the optimizer draw no random numbers
Deterministic(c) ==
    /\ c.LayerOrderingInitializer = "BFS"
    /\ c.LayerOrderingOptimizer.kind \in {"WMedian", "SwitchAdjacent", "Composite"}

(***************************************************************************)
(* Properties of the ordering (specification SpecOrder), continued.        *)
(***************************************************************************)
\* C14: with the BFS initializer and the optimizers WMedian and
\* SwitchAdjacent, building the layered graph and ordering it gives one
\* result for a graph, whatever the order of the map ranges: every run gives
\* each edge the same chain (the same dummy ids) and every node the same
\* final (layer, order).
C14_BuildAndOrderDeterministic ==
    Deterministic(cfg) =>
        /\ Cardinality(BuildAndOrderOutcomes(g, cfg)) = 1
        /\ pc = "ordered" =>
             BuildAndOrderOutcomes(g, cfg) = {<<lg.Edges, lg.NodePosition>>}

\* C15: WarfieldOrderingOptimizer.Optimize changes only the Order of nodes:
\* no step of it changes Segments, Dummy, Edges, the key set of NodePosition
\* or the Layer of a node.
C15_OnlyOrderChanges ==
    [][/\ lg'.Segments = lg.Segments
       /\ lg'.Dummy = lg.Dummy
       /\ lg'.Edges = lg.Edges
       /\ DOMAIN lg'.NodePosition = DOMAIN lg.NodePosition
       /\ \A n \in DOMAIN lg.NodePosition :
            lg'.NodePosition[n].Layer = lg.NodePosition[n].Layer]_vars

\* Optimize returned for a graph with a fake node, at least one epoch ran and
\* the Order of a node changed
C15_Witness ==
    /\ pc = "ordered"
    /\ lg.Dummy # {}
    /\ log # <<>>
    /\ \E n \in DOMAIN lg.NodePosition : lg.NodePosition[n].Order > 0

\* C16: in WarfieldOrderingOptimizer.Optimize the epochs alternate direction
\* starting with down: step i of an even epoch visits (and may reorder) the
\* layer with index i, top-to-bottom, and step i of an odd epoch the layer
\* with index len(layers) - 1 - i, bottom-to-top.
C16_EvenEpochsTopDown ==
    [][(pc = "epoch" /\ iLayer' = iLayer + 1) =>
          LET j == IF tEpoch % 2 = 0 THEN iLayer ELSE Len(layers) - 1 - iLayer
          IN /\ visitedLayer(tEpoch, iLayer, layers) = j
             /\ \A k \in 1..Len(layers) : k # j + 1 => layers'[k] = layers[k]]_vars

\* the segment-roots: the nodes with an outgoing and no incoming segment
SegmentRoots(segments) ==
    {e[1] : e \in segments} \ {e[2] : e \in segments}

\* the nodes on the segments
SegmentNodes(segments) == {e[1] : e \in segments} \cup {e[2] : e \in segments}

\* C17: BFSOrderingInitializer.Init runs a BFS from the segment-roots: the
\* roots and every node reached from them get a visitation index, distinct
\* nodes get distinct indices, and each layer is left sorted by increasing
\* visitation index.
C17_BFSFromSegmentRoots ==
    (/\ cfg.LayerOrderingInitializer = "BFS"
     /\ pc = "epoch" /\ tEpoch = 0 /\ iLayer = 0) =>
        \E ord \in bfsOrds(lg.Segments) :
            /\ SegmentRoots(lg.Segments) \subseteq DOMAIN ord
            /\ SegmentNodes(lg.Segments) \subseteq DOMAIN ord
            /\ \A a, b \in DOMAIN ord : ord[a] = ord[b] => a = b
            /\ \A k \in 1..Len(layers) : \A i, j \in 1..Len(layers[k]) :
                 (i < j /\ layers[k][i] \in DOMAIN ord /\ layers[k][j] \in DOMAIN ord)
                 => ord[layers[k][i]] < ord[layers[k][j]]

\* the type-1 conflict segments: the non-inner segments that cross an inner
\* segment between the same two layers
TypeOneConflicts(l) ==
    {s \in l.Segments :
        /\ ~ IsInnerSegment(l, s)
        /\ \E t \in l.Segments : IsInnerSegment(l, t) /\ Crosses(l, s, t)}

\* C18: for a layered graph with its final ordering, the set returned by
\* preprocessing is exactly the set of type-1 conflict segments: the
\* non-inner segments (u, w) between two layers that cross an inner segment
\* between the same layers; every marked pair is a segment of the graph.
C18_PreprocessingMarksTypeOne ==
    pc \in {"TL", "TR", "BL", "BR", "combine", "horizontal"} =>
        /\ typeOneSegments \subseteq lg.Segments
        /\ typeOneSegments = TypeOneConflicts(lg)

\* the variant whose result is res[key] ran from the top (TopLeft, TopRight)
RanFromTop(key) ==
    \/ key \in {"TL", "TR"}
    \/ cfg.TopDownOnly
    \/ key = "BL" /\ pc = "BL"
    \/ key = "BR" /\ pc \in {"BL", "BR"}

RECURSIVE AlignOrbit(_, _, _)
\* the nodes reached from v by following align at most k times
AlignOrbit(align, v, k) ==
    IF k = 0 THEN {}
    ELSE {align[v]} \cup AlignOrbit(align, align[v], k - 1)

\* C19: after verticalAlignment of any of the four variants align partitions
\* the nodes into cyclic lists (blocks): following align from a node returns
\* to it, a block has at most one node per layer, consecutive members of a
\* block are joined by a segment that is not in typeOneSegments, and all the
\* members of a block have the same root.
C19_AlignFormsBlocks ==
    \A key \in DOMAIN res :
        LET root == res[key].root
            align == res[key].align
            nodes == DOMAIN lg.NodePosition
            n == Cardinality(nodes)
        IN /\ DOMAIN align = nodes /\ DOMAIN root = nodes
           /\ \A v \in nodes :
                /\ align[v] \in nodes
                /\ v \in AlignOrbit(align, v, n)
                /\ root[align[v]] = root[v]
                /\ root[v] \in AlignOrbit(align, v, n)
                /\ \A w \in AlignOrbit(align, v, n) :
                     w # v => lg.NodePosition[w].Layer # lg.NodePosition[v].Layer
                /\ align[v] # root[v] =>
                     LET segment == IF RanFromTop(key) THEN <<v, align[v]>>
                                    ELSE <<align[v], v>>
                     IN segment \in lg.Segments /\ segment \notin typeOneSegments

\* the four variants ran on a graph with a marked segment, and a block of the
\* BottomRight alignment has three nodes
C19_Witness ==
    /\ pc = "combine"
    /\ ~ cfg.TopDownOnly
    /\ typeOneSegments # {}
    /\ \E v \in DOMAIN lg.NodePosition :
         Cardinality(AlignOrbit(res["BR"].align, v, 3)) = 3

\* the number of crossings between the layer with index y of ls and its
\* neighbour layer: the one below when downUp, the one above otherwise
CrossingsWithFixed(segments, ls, y, downUp) ==
    IF downUp
    THEN IF y + 2 > Len(ls) THEN 0
         ELSE Cardinality(CrossingPairs(segments, ls[y + 1], ls[y + 2]))
    ELSE IF y = 0 THEN 0
         ELSE Cardinality(CrossingPairs(segments, ls[y], ls[y + 1]))

\* C20: one call of SwitchAdjacentOrderingOptimizer.Optimize on layer y never
\* increases the number of crossings between layer y and its fixed neighbour
\* layer (y + 1 when downUp, y - 1 otherwise), changes the layer only when
\* that number gets strictly smaller, and leaves layer y a permutation of
\* what it was and the other layers as they were.
C20_SwitchNeverIncreases ==
    [][(/\ pc = "epoch"
        /\ cfg.LayerOrderingOptimizer.kind = "SwitchAdjacent"
        /\ iLayer' = iLayer + 1) =>
          LET y == visitedLayer(tEpoch, iLayer, layers)
              before == CrossingsWithFixed(lg.Segments, layers, y, downUpOf(tEpoch))
              after == CrossingsWithFixed(lg.Segments, layers', y, downUpOf(tEpoch))
          IN /\ after <= before
             /\ layers' # layers => after < before
             /\ Len(layers') = Len(layers)
             /\ Len(layers'[y + 1]) = Len(layers[y + 1])
             /\ Range(layers'[y + 1]) = Range(layers[y + 1])
             /\ \A k \in 1..Len(layers) : k # y + 1 => layers'[k] = layers[k]]_vars

\* SwitchAdjacent swapped a pair in the first epoch: the layers differ from
\* the initial ones and have fewer crossings
C20_Witness ==
    /\ cfg.LayerOrderingOptimizer.kind = "SwitchAdjacent"
    /\ pc = "epoch" /\ tEpoch = 0 /\ iLayer > 0
    /\ layers # bestLayers
    /\ numCrossings(lg.Segments, layers) < numCrossings(lg.Segments, bestLayers)

\* the number of crossings between the layer with index idx of ls and both
\* of its neighbour layers
CrossingsAround(segments, ls, idx) ==
    (IF idx > 0 THEN Cardinality(CrossingPairs(segments, ls[idx], ls[idx + 1])) ELSE 0)
    + (IF idx + 2 <= Len(ls)
       THEN Cardinality(CrossingPairs(segments, ls[idx + 1], ls[idx + 2]))
       ELSE 0)

\* C21: after RandomLayerOrderingOptimizer.Optimize with Epochs >= 1, layer
\* idx holds a permutation the call generated, and none of the permutations
\* the call generated has fewer crossings against both neighbour layers
\* (idx - 1 and idx + 1).
C21_RandomKeepsBest ==
    (/\ pc = "epoch"
     /\ cfg.LayerOrderingOptimizer.kind = "Random"
     /\ tEpoch < cfg.Epochs
     /\ iLayer < Len(layers)) =>
        LET idx == visitedLayer(tEpoch, iLayer, layers)
        IN \A run \in randomEpochs(lg.Segments, layers, idx, -1, 0,
                                   cfg.LayerOrderingOptimizer.Epochs, {}) :
              /\ run.layers[idx + 1] \in run.candidates
              /\ \A candidate \in run.candidates :
                   CrossingsAround(lg.Segments, run.layers, idx)
                     <= CrossingsAround(lg.Segments,
                                        [run.layers EXCEPT ![idx + 1] = candidate], idx)

(***************************************************************************)
(* Specification of LayeredGraph.UpperNeighbors and LowerNeighbors on any  *)
(* value of the struct, one step per call.                                 *)
(***************************************************************************)
InitNeighbors ==
    /\ g = [Nodes |-> {}, Edges |-> {}]
    /\ pc = "layered"
    /\ levels = EmptyMap
    /\ found = NotCalled
    /\ lg \in AnyLayeredGraphs
    /\ layers = <<>>
    /\ N = -1
    /\ NoWarfield
    /\ NoCoordinates

\* a call g.UpperNeighbors(node)
CallUpperNeighbors ==
    /\ pc = "layered"
    /\ \E node \in DOMAIN lg.NodePosition : \E nodes \in UpperNeighbors(lg, node) :
         found' = [method |-> "UpperNeighbors", node |-> node, result |-> nodes]
    /\ pc' = "returned"
    /\ UNCHANGED <<g, levels, lg, layers, N, warfieldVars, coordVars>>

\* a call g.LowerNeighbors(node)
CallLowerNeighbors ==
    /\ pc = "layered"
    /\ \E node \in DOMAIN lg.NodePosition : \E nodes \in LowerNeighbors(lg, node) :
         found' = [method |-> "LowerNeighbors", node |-> node, result |-> nodes]
    /\ pc' = "returned"
    /\ UNCHANGED <<g, levels, lg, layers, N, warfieldVars, coordVars>>

NextNeighbors == CallUpperNeighbors \/ CallLowerNeighbors

SpecNeighbors == InitNeighbors /\ [][NextNeighbors]_vars

(***************************************************************************)
(* Properties of the neighbour methods (specification SpecNeighbors).      *)
(***************************************************************************)
\* C22: LowerNeighbors(node) returns the nodes of the next lower layer that
\* are connected to the node: exactly the v with (node, v) in Segments and
\* layer(v) = layer(node) + 1, as UpperNeighbors returns exactly the u with
\* (u, node) in Segments and layer(u) = layer(node) - 1.
C22_LowerNeighborsAreLower ==
    pc = "returned" =>
        /\ found.method = "LowerNeighbors" =>
             /\ Range(found.result) =
                  {v \in DOMAIN lg.NodePosition :
                      /\ <<found.node, v>> \in lg.Segments
                      /\ LayerIn(lg, v) = LayerIn(lg, found.node) + 1}
             /\ Len(found.result) = Cardinality(Range(found.result))
        /\ found.method = "UpperNeighbors" =>
             /\ Range(found.result) =
                  {u \in DOMAIN lg.NodePosition :
                      /\ <<u, found.node>> \in lg.Segments
                      /\ LayerIn(lg, u) = LayerIn(lg, found.node) - 1}
             /\ Len(found.result) = Cardinality(Range(found.result))

====
